---- MODULE Spec2Model ----
(***************************************************************************)
(* Model of the freehand canvas: DrawingComponent (the Stroke Store and    *)
(* its pointer, undo/redo, erase and import handlers) together with        *)
(* DrawingService (path codec, SVG import, erase hit test) and SvgService  *)
(* (the asynchronous loads).                                               *)
(*                                                                         *)
(* Numbers.  Coordinates, pressures and path numbers are kept in fixed     *)
(* point with one binary digit after the point: the model value of a       *)
(* number v is 2*v, which makes the midpoints of the path encoder exact.   *)
(* Opacities and the shape parameters of a tool are kept in hundredths.    *)
(***************************************************************************)
EXTENDS Integers, Sequences, FiniteSets, TLC

(* ------------------------------ bounds -------------------------------- *)

\* longest in-progress buffer (samples of one gesture)
MaxPoints == 2
\* hand-drawn Strokes in the store (committed or undone) together
MaxDrawn == 1
\* loads of one kind (URL fetch, file read) outstanding together
MaxPending == 1
\* longest ring given to the path encoder on its own
MaxRing == 3
\* longest path string (in tokens) given to the path decoder on its own
MaxTokens == 4

(* ------------------------------ inputs -------------------------------- *)

ToolNames == {"pen1", "pen2", "highlighter", "eraser"}

\* getAttribute() of an attribute the element does not have
Null == "<null>"

(* --------------------------- path tokens ------------------------------ *)

\* a command letter of a path string
Cmd(c) == [k |-> c, n |-> 0]
\* a number of a path string, n in fixed point
Num(n) == [k |-> "num", n |-> n]

(* How a number reads in a path string.  join(' ') writes a number with    *)
(* Number's toString: a plain decimal numeral, except that a non-zero      *)
(* number below 1e-6 in size is written with an exponent ("1e-7").  The    *)
(* numbers k * 5e-8, k = 1..4, stand for these; they are kept apart from   *)
(* the fixed-point numbers as TinyBase + k.  The model adds them only to 0 *)
(* and to each other.                                                      *)
TinyBase == 1000000
Tiny(k) == TinyBase + k
IsTiny(n) == n > TinyBase

\* (a + b) / 2; exact because the fixed-point operands are whole pixels
Half(a, b) ==
    CASE ~IsTiny(a) /\ ~IsTiny(b) -> (a + b) \div 2
      [] IsTiny(a) /\ IsTiny(b) -> Tiny(((a - TinyBase) + (b - TinyBase)) \div 2)
      [] IsTiny(a) /\ b = 0 -> Tiny((a - TinyBase) \div 2)
      [] a = 0 /\ IsTiny(b) -> Tiny((b - TinyBase) \div 2)

\* what the pattern [-+]?[0-9]*\.?[0-9]+ finds in the text of the number n:
\* the numeral itself, or for "5e-8", "1e-7", "1.5e-7", "2e-7" the
\* mantissa and then the signed exponent as a numeral of its own
NumeralsOf(n) ==
    CASE ~IsTiny(n) -> <<n>>
      [] n = Tiny(1) -> <<10, -16>>
      [] n = Tiny(2) -> <<2, -14>>
      [] n = Tiny(3) -> <<3, -14>>
      [] n = Tiny(4) -> <<4, -14>>

RECURSIVE Reverse(_)
Reverse(s) == IF s = <<>> THEN <<>> ELSE Reverse(Tail(s)) \o <<Head(s)>>


(* ----------------------------- ToolConfig ----------------------------- *)

\* names of the easing catalog
EASINGS ==
    {"linear",
     "easeInQuad", "easeOutQuad", "easeInOutQuad",
     "easeInCubic", "easeOutCubic", "easeInOutCubic",
     "easeInQuart", "easeOutQuart", "easeInOutQuart",
     "easeInQuint", "easeOutQuint", "easeInOutQuint",
     "easeInSine", "easeOutSine", "easeInOutSine",
     "easeInExpo", "easeOutExpo", "easeInOutExpo"}

\* The entries of the catalog as functions of t. t is k eighths and a
\* value is v / One, so that the products and powers of the polynomial
\* entries are whole numbers; the Expo entries are applied where their
\* exponent is a whole number (t = 0, 1/2, 1). At these arguments every
\* operand and result is a dyadic number a double holds exactly, and
\* Math.pow(2, +-0) is 1. The Sine entries take irrational values and are
\* not evaluated.
One == 32768
RECURSIVE Pow(_, _)
Pow(b, n) == IF n = 0 THEN 1 ELSE b * Pow(b, n - 1)
\* Math.pow(2, e) for a whole e <= 0
Pow2(e) == One \div Pow(2, 0 - e)

linear(k) == 4096 * k
easeInQuad(k) == 512 * k * k
easeOutQuad(k) == 512 * k * (16 - k)
easeInOutQuad(k) ==
    IF 2 * k < 8 THEN 2 * 512 * k * k ELSE (0 - One) + 512 * (32 - 2 * k) * k
easeInCubic(k) == 64 * k * k * k
easeOutCubic(k) == One - 64 * Pow(8 - k, 3)
easeInOutCubic(k) ==
    IF 2 * k < 8 THEN 4 * 64 * k * k * k
    ELSE One - (64 * Pow(16 - 2 * k, 3)) \div 2
easeInQuart(k) == 8 * k * k * k * k
easeOutQuart(k) == One - 8 * Pow(8 - k, 4)
easeInOutQuart(k) ==
    IF 2 * k < 8 THEN 8 * 8 * k * k * k * k
    ELSE One - (8 * Pow(16 - 2 * k, 4)) \div 2
easeInQuint(k) == k * k * k * k * k
easeOutQuint(k) == One - Pow(8 - k, 5)
easeInOutQuint(k) ==
    IF 2 * k < 8 THEN 16 * k * k * k * k * k
    ELSE One - Pow(16 - 2 * k, 5) \div 2
\* easeInExpo without its branch for t = 0
easeInExpoByPowerOnly(k) == Pow2((10 * k - 80) \div 8)
easeInExpo(k) == IF k = 0 THEN 0 ELSE Pow2((10 * k - 80) \div 8)
easeOutExpo(k) == IF k = 8 THEN One ELSE One - Pow2((0 - 10 * k) \div 8)
easeInOutExpo(k) ==
    IF k = 0 THEN 0
    ELSE IF k = 8 THEN One
    ELSE IF 2 * k < 8 THEN Pow2((20 * k - 80) \div 8) \div 2
    ELSE (2 * One - Pow2((80 - 20 * k) \div 8)) \div 2

\* EASINGS[name](t)
EasingValue(name, k) ==
    CASE name = "linear" -> linear(k)
      [] name = "easeInQuad" -> easeInQuad(k)
      [] name = "easeOutQuad" -> easeOutQuad(k)
      [] name = "easeInOutQuad" -> easeInOutQuad(k)
      [] name = "easeInCubic" -> easeInCubic(k)
      [] name = "easeOutCubic" -> easeOutCubic(k)
      [] name = "easeInOutCubic" -> easeInOutCubic(k)
      [] name = "easeInQuart" -> easeInQuart(k)
      [] name = "easeOutQuart" -> easeOutQuart(k)
      [] name = "easeInOutQuart" -> easeInOutQuart(k)
      [] name = "easeInQuint" -> easeInQuint(k)
      [] name = "easeOutQuint" -> easeOutQuint(k)
      [] name = "easeInOutQuint" -> easeInOutQuint(k)
      [] name = "easeInExpo" -> easeInExpo(k)
      [] name = "easeOutExpo" -> easeOutExpo(k)
      [] name = "easeInOutExpo" -> easeInOutExpo(k)

\* EASINGS[name]: the catalog entry, or undefined for a name it does not have
Undefined == "<undefined>"
EasingLookup(name) == IF name \in EASINGS THEN name ELSE Undefined

\* a default configuration whose easing is no entry of the catalog
getDefaultToolEasingBack(color, size, opacity) ==
    [color |-> color, size |-> size, opacity |-> opacity,
     thinning |-> 50, streamline |-> 50, smoothing |-> 23,
     easing |-> "easeInBack",
     start |-> [taper |-> 0, easing |-> "linear"],
     end |-> [taper |-> 0, easing |-> "linear"],
     outline |-> [color |-> "#9747ff", width |-> 0]]

\* getDefaultTool(color, size, opacity); opacity, thinning, streamline and
\* smoothing in hundredths
getDefaultTool(color, size, opacity) ==
    [color |-> color, size |-> size, opacity |-> opacity,
     thinning |-> 50, streamline |-> 50, smoothing |-> 23,
     easing |-> "linear",
     start |-> [taper |-> 0, easing |-> "linear"],
     end |-> [taper |-> 0, easing |-> "linear"],
     outline |-> [color |-> "#9747ff", width |-> 0]]

\* the eraser's radius in pixels
EraserSize == 40

\* the tools field as constructed
InitTools ==
    [pen1 |-> getDefaultTool("#eb454a", 16, 100),
     pen2 |-> getDefaultTool("#3b82f6", 16, 100),
     highlighter |-> getDefaultTool("#ffeb3b", 30, 40),
     eraser |-> [size |-> EraserSize]]

getLibOptions(tool) ==
    [size |-> tool.size, thinning |-> tool.thinning,
     streamline |-> tool.streamline, smoothing |-> tool.smoothing,
     easing |-> EasingLookup(tool.easing),
     start |-> [taper |-> tool.start.taper,
                easing |-> EasingLookup(tool.start.easing), cap |-> TRUE],
     end |-> [taper |-> tool.end.taper,
              easing |-> EasingLookup(tool.end.easing), cap |-> TRUE]]

(* ------------------------- outline and codec -------------------------- *)

\* getStroke of perfect-freehand, reduced to a ribbon of constant half
\* width size/2 around the samples with a one-point cap at either end:
\* the samples shifted up, the end cap, the samples shifted down in reverse
\* order, the start cap.  A single sample gives a four-point ring.
\* In fixed point the half width size/2 is the number opts.size.
OutlineSide(points, dy) ==
    [i \in 1..Len(points) |-> <<points[i][1], points[i][2] + dy>>]

getStroke(points, opts) ==
    IF points = <<>> THEN <<>>
    ELSE LET h == opts.size
             first == points[1]
             last == points[Len(points)]
         IN  OutlineSide(points, 0 - h)
                \o << <<last[1] + h, last[2]>> >>
                \o Reverse(OutlineSide(points, h))
                \o << <<first[1] - h, first[2]>> >>

\* the reduce of getSvgPathFromStroke from ring index i on: for each ring
\* point the point itself and the midpoint to its cyclic successor
\* mutant: the segment ends on the next ring point, not on the midpoint
RECURSIVE QuadTokensToNext(_, _)
QuadTokensToNext(ring, i) ==
    IF i > Len(ring) THEN <<>>
    ELSE LET p == ring[i]
             q == ring[(i % Len(ring)) + 1]
         IN  << Num(p[1]), Num(p[2]), Num(q[1]), Num(q[2]) >>
                \o QuadTokensToNext(ring, i + 1)

RECURSIVE QuadTokens(_, _)
QuadTokens(ring, i) ==
    IF i > Len(ring) THEN <<>>
    ELSE LET p == ring[i]
             q == ring[(i % Len(ring)) + 1]
         IN  << Num(p[1]), Num(p[2]),
                Num(Half(p[1], q[1])), Num(Half(p[2], q[2])) >>
                \o QuadTokens(ring, i + 1)

\* the path string as its sequence of space-separated tokens; '' is <<>>
getSvgPathFromStroke(ring) ==
    IF Len(ring) = 0 THEN <<>>
    ELSE << Cmd("M"), Num(ring[1][1]), Num(ring[1][2]), Cmd("Q") >>
            \o QuadTokens(ring, 1) \o << Cmd("Z") >>

generatePreviewPath(points, tool) ==
    getSvgPathFromStroke(getStroke(points, getLibOptions(tool)))

\* d.match(regex): the numeric tokens of a path string, left to right
RECURSIVE MatchNumbers(_)
MatchNumbers(d) ==
    IF d = <<>> THEN <<>>
    ELSE (IF Head(d).k = "num" THEN NumeralsOf(Head(d).n) ELSE <<>>)
            \o MatchNumbers(Tail(d))

\* mutant: a last numeral without a partner is paired with 0
RECURSIVE PairUpPadding(_, _)
PairUpPadding(numbers, i) ==
    IF i <= Len(numbers)
    THEN << <<numbers[i], IF i < Len(numbers) THEN numbers[i + 1] ELSE 0, 1>> >>
            \o PairUpPadding(numbers, i + 2)
    ELSE <<>>

\* the loop of extractPointsFromPath: i = 0, 2, 4, ... while i < length - 1
RECURSIVE PairUp(_, _)
PairUp(numbers, i) ==
    IF i < Len(numbers)
    THEN << <<numbers[i], numbers[i + 1], 1>> >> \o PairUp(numbers, i + 2)
    ELSE <<>>

extractPointsFromPath(d) == PairUp(MatchNumbers(d), 1)

(* ------------------------------ erasing ------------------------------- *)

\* Math.hypot(dx, dy) < r, decided on the squares (all three are integers
\* in fixed point, so the comparison of the squares is the comparison of
\* the roots)
HypotLess(dx, dy, r) == dx * dx + dy * dy < r * r

\* mutant: the hit test with <= for <
shouldEraseStrokeInclusive(stroke, x, y, eraserSize) ==
    \E i \in 1..Len(stroke.points) :
        LET dx == stroke.points[i][1] - x
            dy == stroke.points[i][2] - y
        IN  dx * dx + dy * dy <= (2 * eraserSize) * (2 * eraserSize)

\* shouldEraseStroke(stroke, x, y, eraserSize), eraserSize in pixels
shouldEraseStroke(stroke, x, y, eraserSize) ==
    \E i \in 1..Len(stroke.points) :
        HypotLess(stroke.points[i][1] - x, stroke.points[i][2] - y,
                  2 * eraserSize)

(* ---------------------------- SVG documents --------------------------- *)

\* a <path> element: the attributes it has, and their values
PathElement(attrs, d, fill, fillOpacity, stroke, strokeWidth) ==
    [attrs |-> attrs, d |-> d, fill |-> fill, fillOpacity |-> fillOpacity,
     stroke |-> stroke, strokeWidth |-> strokeWidth]

\* path.getAttribute(name) of a string-valued attribute
getAttribute(el, name) ==
    IF name \in el.attrs
    THEN CASE name = "fill" -> el.fill
           [] name = "fill-opacity" -> el.fillOpacity
           [] name = "stroke" -> el.stroke
           [] name = "stroke-width" -> el.strokeWidth
    ELSE Null

\* a || b on strings: b when a is null or ''
OrElse(a, b) == IF a = Null \/ a = "" THEN b ELSE a

\* parseFloat of the numerals the documents use, in hundredths
parseFloat(s) ==
    CASE s = "0" -> 0
      [] s = "1" -> 100
      [] s = "0.4" -> 40
      [] s = "3" -> 300

\* "M 0 0 Q 24 32 Z"
PathDataA == << Cmd("M"), Num(0), Num(0), Cmd("Q"), Num(48), Num(64), Cmd("Z") >>
\* "M 100 0 L 7": the trailing 7 has no partner
PathDataC == << Cmd("M"), Num(200), Num(0), Cmd("L"), Num(14) >>

PathA == PathElement({"d", "fill", "fill-opacity"}, PathDataA,
                     "#112233", "0.4", "", "")
\* a path without d
PathB == PathElement({"fill"}, <<>>, "#445566", "", "", "")
PathC == PathElement({"d", "fill", "stroke", "stroke-width"}, PathDataC,
                     "none", "", "#00ff00", "3")

\* what DOMParser makes of a text: whether there is an svg root, and the
\* path elements below it in document order
NotSvg == [svg |-> FALSE, paths |-> <<>>]
NoPaths == [svg |-> TRUE, paths |-> <<>>]
OnePath == [svg |-> TRUE, paths |-> <<PathA>>]
Mixed == [svg |-> TRUE, paths |-> <<PathB, PathC, PathA>>]
Docs == {NotSvg, NoPaths, OnePath, Mixed}

\* the truthy test of "if (d)": the attribute is there and is not ''
HasD(el) == "d" \in el.attrs /\ el.d # <<>>

\* mutant: a stroke attribute of none is taken over as the outline colour
StrokeOfPathKeepingNone(el) ==
    LET fill == OrElse(getAttribute(el, "fill"), "#000000")
        fillOpacity == parseFloat(OrElse(getAttribute(el, "fill-opacity"), "1"))
        stroke == OrElse(getAttribute(el, "stroke"), "none")
        strokeWidth == parseFloat(OrElse(getAttribute(el, "stroke-width"), "0"))
    IN  [points |-> extractPointsFromPath(el.d),
         path |-> el.d,
         color |-> IF fill = "none" THEN "#000000" ELSE fill,
         opacity |-> fillOpacity,
         outlineColor |-> stroke,
         outlineWidth |-> strokeWidth]

\* the Stroke that the forEach body of parseSVGContent pushes for one path
StrokeOfPath(el) ==
    LET fill == OrElse(getAttribute(el, "fill"), "#000000")
        fillOpacity == parseFloat(OrElse(getAttribute(el, "fill-opacity"), "1"))
        stroke == OrElse(getAttribute(el, "stroke"), "none")
        strokeWidth == parseFloat(OrElse(getAttribute(el, "stroke-width"), "0"))
    IN  [points |-> extractPointsFromPath(el.d),
         path |-> el.d,
         color |-> IF fill = "none" THEN "#000000" ELSE fill,
         opacity |-> fillOpacity,
         outlineColor |-> IF stroke = "none" THEN "#000000" ELSE stroke,
         outlineWidth |-> strokeWidth]

RECURSIVE PathStrokes(_)
PathStrokes(paths) ==
    IF paths = <<>> THEN <<>>
    ELSE (IF HasD(Head(paths)) THEN <<StrokeOfPath(Head(paths))>> ELSE <<>>)
            \o PathStrokes(Tail(paths))

\* parseSVGContent(svgContent): the Strokes of the document, [] when the
\* text has no svg root
parseSVGContent(doc) ==
    IF ~doc.svg THEN <<>> ELSE PathStrokes(doc.paths)

(* ------------------------------- state -------------------------------- *)

VARIABLES
    allStrokes,     \* the committed Strokes, oldest first
    redoStack,      \* the undone Strokes, most recently undone last
    activeTool,     \* the selected tool slot
    currentPoints,  \* the samples of the gesture in progress
    previewPath,    \* the path shown for the gesture in progress
    tools,          \* the configuration of the four tool slots
    pending,        \* loads in flight: how many URL fetches, how many file reads
    isSending,      \* the in-flight flag of the export POST
    request,        \* export POSTs under way: how many await the fetch,
                    \* how many await response.json()
    call,           \* a service function applied on its own: input and result
    last            \* history: the handler that ran last, and its input

vars == <<allStrokes, redoStack, activeTool, currentPoints, previewPath,
          tools, pending, isSending, request, call, last>>

\* svgElement.getBoundingClientRect()
CanvasRect == [left |-> 10, top |-> 20]

\* what the pointer handlers read from a PointerEvent: clientX and clientY,
\* pressure (fixed point) and buttons
PointerEvent(cx, cy, pressure, buttons) ==
    [client |-> <<cx, cy>>, pressure |-> pressure, buttons |-> buttons]

\* getCoords(e), in pixels
getCoords(e) ==
    [x |-> e.client[1] - CanvasRect.left, y |-> e.client[2] - CanvasRect.top]

\* a pixel count in fixed point
Fx(n) == 2 * n

\* the sample [x, y, e.pressure] of an event
Sample(e) == <<Fx(getCoords(e).x), Fx(getCoords(e).y), e.pressure>>

(* History kept with each Stroke of the store: origin says whether a      *)
(* gesture or an import created it, and seq orders the Strokes of the     *)
(* store by the time of their creation.  seq is a rank: a new Stroke gets *)
(* one more than the largest in the store, and the ranks are closed up    *)
(* when erase removes Strokes, so they stay within 1..(size of the store).*)
Stamp(stroke, origin, n) ==
    [points |-> stroke.points, path |-> stroke.path, color |-> stroke.color,
     opacity |-> stroke.opacity, outlineColor |-> stroke.outlineColor,
     outlineWidth |-> stroke.outlineWidth, origin |-> origin, seq |-> n]

\* the Stroke as the program holds it
Plain(s) ==
    [points |-> s.points, path |-> s.path, color |-> s.color,
     opacity |-> s.opacity, outlineColor |-> s.outlineColor,
     outlineWidth |-> s.outlineWidth]

PlainAll(strokes) == [i \in 1..Len(strokes) |-> Plain(strokes[i])]

StampAll(strokes, origin, n) ==
    [i \in 1..Len(strokes) |-> Stamp(strokes[i], origin, n + i - 1)]

SeqsOf(strokes) == {strokes[i].seq : i \in 1..Len(strokes)}

NextSeq == Cardinality(SeqsOf(allStrokes) \cup SeqsOf(redoStack)) + 1

\* strokes with every seq replaced by its rank among the seqs kept
CloseUp(strokes, kept) ==
    [i \in 1..Len(strokes) |->
        [strokes[i] EXCEPT !.seq = Cardinality({n \in kept : n <= strokes[i].seq})]]

Drawn(strokes) ==
    Cardinality({i \in 1..Len(strokes) : strokes[i].origin = "gesture"})

NoEvent == PointerEvent(0, 0, 0, 0)
\* history: handler op ran.  res is the branch it took, e the event of an
\* erase, doc the text of a load, url whether a fetch was started
Ran(op) == [op |-> op, e |-> NoEvent, doc |-> NotSvg, res |-> "none", url |-> FALSE]
RanLoad(op, res, doc, url) == [Ran(op) EXCEPT !.res = res, !.doc = doc, !.url = url]

\* no service function has been applied on its own
NoCall == [fn |-> "none", arg |-> <<>>, out |-> <<>>]

\* the fields of the component
component == <<allStrokes, redoStack, activeTool, currentPoints, previewPath,
               tools, pending, isSending, request, last>>

\* the component as constructed
ComponentInit ==
    /\ allStrokes = <<>>
    /\ redoStack = <<>>
    /\ activeTool = "pen1"
    /\ currentPoints = <<>>
    /\ previewPath = <<>>
    /\ tools = InitTools
    /\ pending = [url |-> 0, file |-> 0]
    /\ isSending = FALSE
    /\ request = [fetch |-> 0, json |-> 0]
    /\ last = Ran("init")

Init == ComponentInit /\ call = NoCall

(* --------------------------- store operations ------------------------- *)

\* the getter activeDrawingTool: pen1 stands in for the eraser
activeDrawingTool ==
    IF activeTool = "eraser" THEN tools.pen1 ELSE tools[activeTool]

\* mutant: a pop that finds nothing empties the other stack
MoveTopClearingOnEmpty(from, to) ==
    IF from = <<>>
    THEN [from |-> from, to |-> <<>>]
    ELSE [from |-> SubSeq(from, 1, Len(from) - 1),
          to |-> Append(to, from[Len(from)])]

\* mutant: the top is read and pushed but not popped
MoveTopWithoutPop(from, to) ==
    IF from = <<>>
    THEN [from |-> from, to |-> to]
    ELSE [from |-> from, to |-> Append(to, from[Len(from)])]

\* array.pop() then push on the other stack; a Stroke is an object, so
\* "if (s)" is the test that the pop found one
MoveTop(from, to) ==
    IF from = <<>>
    THEN [from |-> from, to |-> to]
    ELSE [from |-> SubSeq(from, 1, Len(from) - 1),
          to |-> Append(to, from[Len(from)])]

\* the filter of erase(e)
eraseStrokes(strokes, x, y, eraserSize) ==
    SelectSeq(strokes, LAMBDA s : ~shouldEraseStroke(s, x, y, eraserSize))

\* mutant: the outline takes the fill colour
CommittedStrokeOutlineOfFill(points, path, t) ==
    [points |-> points, path |-> path, color |-> t.color,
     opacity |-> t.opacity, outlineColor |-> t.color,
     outlineWidth |-> t.outline.width]

\* the Stroke that onPointerUp pushes
CommittedStroke(points, path, t) ==
    [points |-> points, path |-> path, color |-> t.color,
     opacity |-> t.opacity, outlineColor |-> t.outline.color,
     outlineWidth |-> t.outline.width]

(* ------------------------------ handlers ------------------------------ *)

\* the tool buttons of the template assign activeTool
SelectTool(t) ==
    /\ activeTool' = t
    /\ last' = Ran("selectTool")
    /\ UNCHANGED <<allStrokes, redoStack, currentPoints, previewPath, tools,
                   pending>>
    /\ UNCHANGED <<isSending, request, call>>

\* mutant: the filter is applied to the undone Strokes as well
eraseBothStacks(e) ==
    LET x == Fx(getCoords(e).x)
        y == Fx(getCoords(e).y)
        left == eraseStrokes(allStrokes, x, y, tools.eraser.size)
        undone == eraseStrokes(redoStack, x, y, tools.eraser.size)
        kept == SeqsOf(left) \cup SeqsOf(undone)
    IN  /\ allStrokes' = CloseUp(left, kept)
        /\ redoStack' = CloseUp(undone, kept)
        /\ UNCHANGED <<currentPoints, previewPath>>

erase(e) ==
    LET left == eraseStrokes(allStrokes, Fx(getCoords(e).x),
                             Fx(getCoords(e).y), tools.eraser.size)
        kept == SeqsOf(left) \cup SeqsOf(redoStack)
    IN  /\ allStrokes' = CloseUp(left, kept)
        /\ redoStack' = CloseUp(redoStack, kept)
        /\ UNCHANGED <<currentPoints, previewPath>>

\* history: the pointer handler op ran; the event is kept when it erased
\* and when it began a gesture
RanPointer(op, e) ==
    IF activeTool = "eraser" /\ (op = "pointerDown" \/ e.buttons = 1)
    THEN [Ran(op) EXCEPT !.e = e, !.res = "erase"]
    ELSE IF op = "pointerDown"
    THEN [Ran(op) EXCEPT !.e = e, !.res = "begin"]
    ELSE Ran(op)

\* mutant: the new gesture is added to the buffer of the one in progress
onPointerDownKeepingBuffer(e) ==
    /\ IF activeTool = "eraser"
       THEN erase(e)
       ELSE /\ currentPoints' = Append(currentPoints, Sample(e))
            /\ redoStack' = <<>>
            /\ UNCHANGED <<allStrokes, previewPath>>
    /\ last' = RanPointer("pointerDown", e)
    /\ UNCHANGED <<activeTool, tools, pending>>
    /\ UNCHANGED <<isSending, request, call>>

onPointerDown(e) ==
    /\ IF activeTool = "eraser"
       THEN erase(e)
       ELSE /\ currentPoints' = <<Sample(e)>>
            /\ redoStack' = <<>>
            /\ UNCHANGED <<allStrokes, previewPath>>
    /\ last' = RanPointer("pointerDown", e)
    /\ UNCHANGED <<activeTool, tools, pending>>
    /\ UNCHANGED <<isSending, request, call>>

onPointerMove(e) ==
    /\ IF e.buttons # 1
       THEN UNCHANGED <<allStrokes, redoStack, currentPoints, previewPath>>
       ELSE IF activeTool = "eraser"
       THEN erase(e)
       ELSE /\ Len(currentPoints) < MaxPoints
            /\ currentPoints' = Append(currentPoints, Sample(e))
            /\ previewPath' = generatePreviewPath(currentPoints', tools[activeTool])
            /\ UNCHANGED <<allStrokes, redoStack>>
    /\ last' = RanPointer("pointerMove", e)
    /\ UNCHANGED <<activeTool, tools, pending>>
    /\ UNCHANGED <<isSending, request, call>>

onPointerUp ==
    /\ IF currentPoints # <<>> /\ activeTool # "eraser"
       THEN /\ Drawn(allStrokes) + Drawn(redoStack) < MaxDrawn
            /\ allStrokes' = Append(allStrokes,
                    Stamp(CommittedStroke(currentPoints, previewPath,
                                          tools[activeTool]),
                          "gesture", NextSeq))
       ELSE UNCHANGED allStrokes
    /\ currentPoints' = <<>>
    /\ previewPath' = <<>>
    /\ last' = [Ran("pointerUp") EXCEPT
                    !.res = IF currentPoints # <<>> /\ activeTool # "eraser"
                            THEN "commit" ELSE "none"]
    /\ UNCHANGED <<redoStack, activeTool, tools, pending>>
    /\ UNCHANGED <<isSending, request, call>>

undo ==
    /\ LET r == MoveTop(allStrokes, redoStack)
       IN  allStrokes' = r.from /\ redoStack' = r.to
    /\ last' = Ran("undo")
    /\ UNCHANGED <<activeTool, currentPoints, previewPath, tools, pending>>
    /\ UNCHANGED <<isSending, request, call>>

redo ==
    /\ LET r == MoveTop(redoStack, allStrokes)
       IN  redoStack' = r.from /\ allStrokes' = r.to
    /\ last' = Ran("redo")
    /\ UNCHANGED <<activeTool, currentPoints, previewPath, tools, pending>>
    /\ UNCHANGED <<isSending, request, call>>

\* mutant: only the committed Strokes are dropped
clearCanvasKeepingRedo ==
    /\ allStrokes' = <<>>
    /\ UNCHANGED redoStack
    /\ last' = Ran("clearCanvas")
    /\ UNCHANGED <<activeTool, currentPoints, previewPath, tools, pending>>
    /\ UNCHANGED <<isSending, request, call>>

clearCanvas ==
    /\ allStrokes' = <<>>
    /\ redoStack' = <<>>
    /\ last' = Ran("clearCanvas")
    /\ UNCHANGED <<activeTool, currentPoints, previewPath, tools, pending>>
    /\ UNCHANGED <<isSending, request, call>>

(* ------------------------------- import ------------------------------- *)

\* the outcome of obtaining a text: res says how it ended, doc is the text
\* (as parsed) when res = "ok"
Outcome(res, doc) == [res |-> res, doc |-> doc]
Texts(docs) == {Outcome("ok", d) : d \in docs}

\* params['svg']: absent, not base64 (atob throws), or the base64 of a text
SvgParams(docs) ==
    {Outcome("none", NotSvg), Outcome("bad", NotSvg)} \cup Texts(docs)
\* fetch(url) then response.ok: the promise rejects, the answer is not 2xx,
\* or response.text() is the text
FetchOutcomes(docs) ==
    {Outcome("rejected", NotSvg), Outcome("notOk", NotSvg)} \cup Texts(docs)
\* FileReader: onerror, or onload with the text
ReadOutcomes(docs) == {Outcome("error", NotSvg)} \cup Texts(docs)

loadSVGContent(doc) ==
    /\ allStrokes' = StampAll(parseSVGContent(doc), "import", 1)
    /\ redoStack' = <<>>

\* the queryParams subscription of ngOnInit; url says that params['url'] is set
onQueryParams(svg, url) ==
    /\ IF svg.res = "ok"
       THEN loadSVGContent(svg.doc)
       ELSE UNCHANGED <<allStrokes, redoStack>>
    /\ IF url
       THEN /\ pending.url < MaxPending
            /\ pending' = [pending EXCEPT !.url = @ + 1]
       ELSE UNCHANGED pending
    /\ last' = RanLoad("queryParams", svg.res, svg.doc, url)
    /\ UNCHANGED <<activeTool, currentPoints, previewPath, tools>>
    /\ UNCHANGED <<isSending, request, call>>

\* mutant: response.ok is not looked at, the body of any answer is loaded
urlLoadSettledUnchecked(out) ==
    /\ pending.url > 0
    /\ pending' = [pending EXCEPT !.url = @ - 1]
    /\ IF out.res \in {"ok", "notOk"}
       THEN loadSVGContent(out.doc)
       ELSE UNCHANGED <<allStrokes, redoStack>>
    /\ last' = RanLoad("urlLoadSettled", out.res, out.doc, FALSE)
    /\ UNCHANGED <<activeTool, currentPoints, previewPath, tools>>
    /\ UNCHANGED <<isSending, request, call>>

\* loadSVGFromUrl(url) from its await on: the fetch has settled
urlLoadSettled(out) ==
    /\ pending.url > 0
    /\ pending' = [pending EXCEPT !.url = @ - 1]
    /\ IF out.res = "ok"
       THEN loadSVGContent(out.doc)
       ELSE UNCHANGED <<allStrokes, redoStack>>
    /\ last' = RanLoad("urlLoadSettled", out.res, out.doc, FALSE)
    /\ UNCHANGED <<activeTool, currentPoints, previewPath, tools>>
    /\ UNCHANGED <<isSending, request, call>>

\* onFileSelected(event); hasFile says that input.files[0] is there
onFileSelected(hasFile) ==
    /\ IF hasFile
       THEN /\ pending.file < MaxPending
            /\ pending' = [pending EXCEPT !.file = @ + 1]
       ELSE UNCHANGED pending
    /\ last' = Ran("fileSelected")
    /\ UNCHANGED <<allStrokes, redoStack, activeTool, currentPoints,
                   previewPath, tools>>
    /\ UNCHANGED <<isSending, request, call>>

\* mutant: the text of a file is dropped while a URL fetch is outstanding
fileLoadSettledBehindFetch(out) ==
    /\ pending.file > 0
    /\ pending' = [pending EXCEPT !.file = @ - 1]
    /\ IF out.res = "ok" /\ pending.url = 0
       THEN loadSVGContent(out.doc)
       ELSE UNCHANGED <<allStrokes, redoStack>>
    /\ last' = RanLoad("fileLoadSettled", out.res, out.doc, FALSE)
    /\ UNCHANGED <<activeTool, currentPoints, previewPath, tools>>
    /\ UNCHANGED <<isSending, request, call>>

\* loadSVGFile(file) from its await on: the read has settled
fileLoadSettled(out) ==
    /\ pending.file > 0
    /\ pending' = [pending EXCEPT !.file = @ - 1]
    /\ IF out.res = "ok"
       THEN loadSVGContent(out.doc)
       ELSE UNCHANGED <<allStrokes, redoStack>>
    /\ last' = RanLoad("fileLoadSettled", out.res, out.doc, FALSE)
    /\ UNCHANGED <<activeTool, currentPoints, previewPath, tools>>
    /\ UNCHANGED <<isSending, request, call>>

(* ---------------------------- tool settings --------------------------- *)

\* the settings panel of the template writes the fields of a tool slot;
\* cfg is what the slot holds afterwards
configureTool(t, cfg) ==
    /\ tools' = [tools EXCEPT ![t] = cfg]
    /\ last' = Ran("configureTool")
    /\ UNCHANGED <<allStrokes, redoStack, activeTool, currentPoints,
                   previewPath, pending>>
    /\ UNCHANGED <<isSending, request, call>>

\* the table "defaults" of resetPenSettings; opacity in hundredths
ResetDefaults ==
    [pen1 |-> [color |-> "#eb454a", size |-> 16],
     pen2 |-> [color |-> "#3b82f6", size |-> 16],
     highlighter |-> [color |-> "#ffeb3b", size |-> 30, opacity |-> 40]]

\* d.opacity || 1
OpacityOrOne(d) == IF "opacity" \in DOMAIN d THEN d.opacity ELSE 100

resetPenSettings ==
    /\ IF activeTool = "eraser"
       THEN UNCHANGED tools
       ELSE LET d == ResetDefaults[activeTool]
            IN  tools' = [tools EXCEPT ![activeTool] =
                            getDefaultTool(d.color, d.size, OpacityOrOne(d))]
    /\ last' = Ran("resetPenSettings")
    /\ UNCHANGED <<allStrokes, redoStack, activeTool, currentPoints,
                   previewPath, pending>>
    /\ UNCHANGED <<isSending, request, call>>

(* ------------------------------- export ------------------------------- *)

\* history: an export step ran and took the branch res
RanExport(op, res) == [Ran(op) EXCEPT !.res = res]

\* mutant: the call does not look at the flag
sendToApiUnguarded(throws) ==
    /\ IF throws
       THEN /\ isSending' = FALSE
            /\ UNCHANGED request
            /\ last' = RanExport("sendToApi", "threw")
       ELSE /\ isSending' = TRUE
            /\ request' = [request EXCEPT !.fetch = @ + 1]
            /\ last' = RanExport("sendToApi", "sent")
    /\ UNCHANGED <<allStrokes, redoStack, activeTool, currentPoints,
                   previewPath, tools, pending, call>>

\* sendToApi(); throws says that SvgService.sendToApi fails before its
\* fetch is under way (reading the element, building the body, calling
\* fetch): its promise is then rejected at once, and catch and finally run
\* before any other handler does
sendToApi(throws) ==
    /\ IF isSending
       THEN /\ UNCHANGED <<isSending, request>>
            /\ last' = RanExport("sendToApi", "busy")
       ELSE IF throws
       THEN /\ isSending' = FALSE
            /\ UNCHANGED request
            /\ last' = RanExport("sendToApi", "threw")
       ELSE /\ isSending' = TRUE
            /\ request' = [request EXCEPT !.fetch = @ + 1]
            /\ last' = RanExport("sendToApi", "sent")
    /\ UNCHANGED <<allStrokes, redoStack, activeTool, currentPoints,
                   previewPath, tools, pending, call>>

\* the export POSTs that have been issued and have not settled
InFlight == request.fetch + request.json

\* how the POST can end: the fetch rejects, the answer is not 2xx, or it is
ApiOutcomes == {"rejected", "notOk", "ok"}

\* mutant: the flag is reset only on the path without an exception
fetchSettledWithoutFinally(out) ==
    /\ request.fetch > 0
    /\ request' = IF out = "ok"
                  THEN [fetch |-> request.fetch - 1, json |-> request.json + 1]
                  ELSE [request EXCEPT !.fetch = @ - 1]
    /\ UNCHANGED isSending
    /\ last' = RanExport("fetchSettled", out)
    /\ UNCHANGED <<allStrokes, redoStack, activeTool, currentPoints,
                   previewPath, tools, pending, call>>

\* SvgService.sendToApi from its await on: the fetch has settled.  With a
\* 2xx answer response.json() is awaited next; otherwise the service
\* throws, and catch and finally of the component run
fetchSettled(out) ==
    /\ request.fetch > 0
    /\ IF out = "ok"
       THEN /\ request' = [fetch |-> request.fetch - 1,
                           json |-> request.json + 1]
            /\ UNCHANGED isSending
       ELSE /\ request' = [request EXCEPT !.fetch = @ - 1]
            /\ isSending' = FALSE
    /\ last' = RanExport("fetchSettled", out)
    /\ UNCHANGED <<allStrokes, redoStack, activeTool, currentPoints,
                   previewPath, tools, pending, call>>

\* response.json() has settled (parsed tells how); the component logs and
\* runs finally
jsonSettled(parsed) ==
    /\ request.json > 0
    /\ request' = [request EXCEPT !.json = @ - 1]
    /\ isSending' = FALSE
    /\ last' = RanExport("jsonSettled", IF parsed THEN "ok" ELSE "rejected")
    /\ UNCHANGED <<allStrokes, redoStack, activeTool, currentPoints,
                   previewPath, tools, pending, call>>

(* ---------------------------- specifications -------------------------- *)

\* pointer positions (clientX, clientY): on the canvas origin, 40 pixels
\* from it, and far from both
Near == PointerEvent(10, 20, 1, 1)
AtRadius == PointerEvent(34, 52, 1, 1)
Far == PointerEvent(110, 20, 1, 1)
\* a move with no button held
Hover == PointerEvent(10, 20, 1, 0)
\* on the canvas origin with full pressure
Pressed == PointerEvent(10, 20, 2, 1)

\* one step of the component with its inputs drawn from the given sets
Step(toolSet, downs, moves, docs) ==
    \/ \E t \in toolSet : SelectTool(t)
    \/ \E e \in downs : onPointerDown(e)
    \/ \E e \in moves : onPointerMove(e)
    \/ onPointerUp
    \/ undo
    \/ redo
    \/ clearCanvas
    \/ \E svg \in SvgParams(docs), url \in BOOLEAN : onQueryParams(svg, url)
    \/ \E out \in FetchOutcomes(docs) : urlLoadSettled(out)
    \/ \E hasFile \in BOOLEAN : onFileSelected(hasFile)
    \/ \E out \in ReadOutcomes(docs) : fileLoadSettled(out)

\* drawing, the store and every way of loading a document, with few inputs
Next == Step({"pen1", "eraser"}, {Near}, {Near, Hover}, Docs)

Spec == Init /\ [][Next]_vars

\* where the pointer goes down and where it moves, by the active tool:
\* the eraser is tried at all three positions, a pen goes down at one and
\* moves to another
DownEvents == IF activeTool = "eraser" THEN {Near, AtRadius, Far} ELSE {AtRadius}
MoveEvents == IF activeTool = "eraser" THEN {Near, AtRadius, Far, Hover} ELSE {Near, Hover}

\* drawing and the store: the four tools, gestures, erasing, undo and redo,
\* and the import of a document given in the query string
NextStore ==
    \/ \E t \in ToolNames : SelectTool(t)
    \/ \E e \in DownEvents : onPointerDown(e)
    \/ \E e \in MoveEvents : onPointerMove(e)
    \/ onPointerUp
    \/ undo
    \/ redo
    \/ clearCanvas
    \/ \E svg \in Texts({Mixed}) : onQueryParams(svg, FALSE)

SpecStore == Init /\ [][NextStore]_vars

\* undo and redo over Strokes drawn with the first pen and Strokes imported
\* from the query string
NextUndo ==
    \/ \E e \in {AtRadius} : onPointerDown(e)
    \/ \E e \in {AtRadius, Hover} : onPointerMove(e)
    \/ onPointerUp
    \/ undo
    \/ redo
    \/ clearCanvas
    \/ \E svg \in Texts({Mixed}) : onQueryParams(svg, FALSE)

SpecUndo == Init /\ [][NextUndo]_vars

\* where the eraser is pressed and dragged, and where the first pen draws
EraseEvents == IF activeTool = "eraser" THEN {Near, AtRadius, Far} ELSE {AtRadius}

\* erasing at three positions over drawn, imported and undone Strokes
NextErase ==
    \/ \E t \in {"pen1", "eraser"} : SelectTool(t)
    \/ \E e \in EraseEvents : onPointerDown(e)
    \/ \E e \in EraseEvents : onPointerMove(e)
    \/ onPointerUp
    \/ undo
    \/ \E svg \in Texts({Mixed}) : onQueryParams(svg, FALSE)

SpecErase == Init /\ [][NextErase]_vars

\* the eraser is dragged, a pen is only put down
DragEvents == IF activeTool = "eraser" THEN {Near, AtRadius, Far} ELSE {}

\* erasing next to undone Strokes and an unfinished gesture, and redoing
\* afterwards
NextEraseUndone ==
    \/ \E t \in {"pen1", "eraser"} : SelectTool(t)
    \/ \E e \in EraseEvents : onPointerDown(e)
    \/ \E e \in DragEvents : onPointerMove(e)
    \/ onPointerUp
    \/ undo
    \/ redo
    \/ \E svg \in Texts({Mixed}) : onQueryParams(svg, FALSE)

SpecEraseUndone == Init /\ [][NextEraseUndone]_vars

\* gestures ended under each tool: the first pen is the tool selected at
\* construction, the other three are selected
NextCommit ==
    \/ \E t \in {"pen2", "highlighter", "eraser"} : SelectTool(t)
    \/ \E e \in {AtRadius} : onPointerDown(e)
    \/ \E e \in {AtRadius} : onPointerMove(e)
    \/ onPointerUp
    \/ undo

SpecCommit == Init /\ [][NextCommit]_vars

\* the three ways a document is loaded, over work drawn with the first pen
\* (the buffer is filled by pointer-moves with the button held, which leave
\* the redo stack alone)
NextLoad ==
    \/ \E e \in {Near} : onPointerMove(e)
    \/ onPointerUp
    \/ undo
    \/ \E svg \in SvgParams(Docs), url \in BOOLEAN : onQueryParams(svg, url)
    \/ \E out \in FetchOutcomes(Docs) : urlLoadSettled(out)
    \/ \E hasFile \in BOOLEAN : onFileSelected(hasFile)
    \/ \E out \in ReadOutcomes(Docs) : fileLoadSettled(out)

SpecLoad == Init /\ [][NextLoad]_vars

\* loads outstanding together and completing in either order, over
\* imported Strokes of which some are undone
NextLoadTogether ==
    \/ undo
    \/ \E svg \in SvgParams(Docs), url \in BOOLEAN : onQueryParams(svg, url)
    \/ \E out \in FetchOutcomes(Docs) : urlLoadSettled(out)
    \/ \E hasFile \in BOOLEAN : onFileSelected(hasFile)
    \/ \E out \in ReadOutcomes(Docs) : fileLoadSettled(out)

SpecLoadTogether == Init /\ [][NextLoadTogether]_vars

\* gestures begun with the first pen and the highlighter at two positions
\* and pressures, over committed and undone Strokes
NextBegin ==
    \/ \E t \in {"highlighter"} : SelectTool(t)
    \/ \E e \in {AtRadius, Pressed} : onPointerDown(e)
    \/ \E e \in {Pressed} : onPointerMove(e)
    \/ onPointerUp
    \/ undo

SpecBegin == Init /\ [][NextBegin]_vars

\* the export POST next to drawing with the first pen
NextSend ==
    \/ \E throws \in BOOLEAN : sendToApi(throws)
    \/ \E out \in ApiOutcomes : fetchSettled(out)
    \/ \E parsed \in BOOLEAN : jsonSettled(parsed)
    \/ \E e \in {Near} : onPointerDown(e)
    \/ \E e \in {Near} : onPointerMove(e)
    \/ onPointerUp
    \/ undo

\* a request that is under way settles: the fetch ends one way or the
\* other, and so does the reading of the answer
SpecSend ==
    /\ Init /\ [][NextSend]_vars
    /\ WF_vars(\E out \in ApiOutcomes : fetchSettled(out))
    /\ WF_vars(\E parsed \in BOOLEAN : jsonSettled(parsed))

\* settings a user can give a slot: a thin, half transparent pen with an
\* outline and other easings, and a larger eraser
OtherPen ==
    [color |-> "#000000", size |-> 8, opacity |-> 50,
     thinning |-> 70, streamline |-> 30, smoothing |-> 50,
     easing |-> "easeInQuad",
     start |-> [taper |-> 10, easing |-> "easeOutSine"],
     end |-> [taper |-> 20, easing |-> "easeInExpo"],
     outline |-> [color |-> "#ffffff", width |-> 2]]
OtherEraser == [size |-> 60]
OtherSettings(t) == IF t = "eraser" THEN OtherEraser ELSE OtherPen

\* selecting, configuring and resetting the four slots, next to a store
\* with a committed and an undone Stroke
NextTools ==
    \/ \E t \in ToolNames : SelectTool(t)
    \/ \E t \in ToolNames : configureTool(t, OtherSettings(t))
    \/ resetPenSettings
    \/ \E e \in {Near} : onPointerDown(e)
    \/ onPointerUp
    \/ undo

SpecTools == Init /\ [][NextTools]_vars

(* ------------------- the path codec on its own ------------------------ *)

\* the sequences over S of length 0..n
SeqsUpTo(S, n) == UNION {[1..k -> S] : k \in 0..n}

\* ring points on whole pixels (their midpoints fall on half pixels), and
\* ring points whose x is 0 or a number below 1e-6
RingPointsPlain == {<<0, 0>>, <<6, -4>>, <<20, 14>>}
RingPointsTiny == {<<0, 0>>, <<Tiny(2), 0>>, <<Tiny(4), 6>>}
Rings == SeqsUpTo(RingPointsPlain, MaxRing) \cup SeqsUpTo(RingPointsTiny, MaxRing)

\* "M 1 2 Q 3 4 5 6 Z"
ExamplePath ==
    << Cmd("M"), Num(2), Num(4), Cmd("Q"), Num(6), Num(8), Num(10), Num(12),
       Cmd("Z") >>
\* path strings: command letters, a positive, a negative and a half-pixel
\* numeral, and a numeral with an exponent
PathTokens == {Cmd("M"), Cmd("Z"), Num(2), Num(-7), Num(Tiny(2))}
PathStrings == SeqsUpTo(PathTokens, MaxTokens) \cup {ExamplePath}

\* a function of DrawingService is about to be applied to arg
Given(kind, arg) == [fn |-> kind, arg |-> arg, out |-> <<>>]
Applied(fn, arg, out) == [fn |-> fn, arg |-> arg, out |-> out]

InitCodec ==
    /\ ComponentInit
    /\ call \in {Given("ring", r) : r \in Rings}
                \cup {Given("path", d) : d \in PathStrings}

\* getSvgPathFromStroke(ring)
ApplyEncode ==
    /\ call.fn = "ring"
    /\ call' = Applied("getSvgPathFromStroke", call.arg,
                       getSvgPathFromStroke(call.arg))
    /\ UNCHANGED component

\* extractPointsFromPath(d)
ApplyDecode ==
    /\ call.fn = "path"
    /\ call' = Applied("extractPointsFromPath", call.arg,
                       extractPointsFromPath(call.arg))
    /\ UNCHANGED component

\* extractPointsFromPath(getSvgPathFromStroke(ring)): arg stays the ring
ApplyDecodeToEncoded ==
    /\ call.fn = "getSvgPathFromStroke"
    /\ call' = Applied("roundTrip", call.arg, extractPointsFromPath(call.out))
    /\ UNCHANGED component

NextCodec ==
    \/ ApplyEncode
    \/ ApplyDecode
    \/ ApplyDecodeToEncoded

SpecCodec == InitCodec /\ [][NextCodec]_vars

(* ------------------- the SVG import on its own ------------------------ *)

\* what an attribute of a path element can be: not there (Null), there and
\* empty, or there with a value
FillValues == {Null, "", "none", "#112233"}
FillOpacityValues == {Null, "", "0", "0.4"}
StrokeValues == {Null, "", "none", "#00ff00"}
StrokeWidthValues == {Null, "", "3"}
DValues == {Null, <<>>, PathDataA, PathDataC}

\* the path element with the given attributes
ElementWith(d, fill, fillOpacity, stroke, strokeWidth) ==
    PathElement(
        {n \in {"d"} : d # Null} \cup {n \in {"fill"} : fill # Null}
            \cup {n \in {"fill-opacity"} : fillOpacity # Null}
            \cup {n \in {"stroke"} : stroke # Null}
            \cup {n \in {"stroke-width"} : strokeWidth # Null},
        IF d = Null THEN <<>> ELSE d,
        IF fill = Null THEN "" ELSE fill,
        IF fillOpacity = Null THEN "" ELSE fillOpacity,
        IF stroke = Null THEN "" ELSE stroke,
        IF strokeWidth = Null THEN "" ELSE strokeWidth)

PathElements ==
    {ElementWith(d, f, fo, st, sw) :
        d \in DValues, f \in FillValues, fo \in FillOpacityValues,
        st \in StrokeValues, sw \in StrokeWidthValues}

InitParse ==
    /\ ComponentInit
    /\ call \in {Given("element", el) : el \in PathElements}

\* parseSVGContent of the document <svg><path .../></svg>
ApplyParse ==
    /\ call.fn = "element"
    /\ call' = Applied("parseSVGContent", call.arg,
                       parseSVGContent([svg |-> TRUE, paths |-> <<call.arg>>]))
    /\ UNCHANGED component

NextParse == ApplyParse

SpecParse == InitParse /\ [][NextParse]_vars

(* ----------------- the tool configuration on its own ------------------ *)

\* easing names of a configuration: two of the catalog and one that the
\* catalog does not have
EasingNames == {"linear", "easeOutQuad", "bounce"}

\* the first pen with the given easing names
ToolWith(easing, startEasing, endEasing) ==
    [InitTools.pen1 EXCEPT !.easing = easing, !.start.easing = startEasing,
                           !.end.easing = endEasing]

ToolConfigs ==
    {ToolWith(e, s, t) : e \in EasingNames, s \in EasingNames, t \in EasingNames}

\* buffers of a gesture
Buffers == {<<>>, <<Sample(Near)>>, <<Sample(Near), Sample(AtRadius)>>}

InitConfig ==
    /\ ComponentInit
    /\ call \in {Given("tool", [points |-> b, tool |-> t]) :
                    b \in Buffers, t \in ToolConfigs}

\* getLibOptions(tool)
ApplyGetLibOptions ==
    /\ call.fn = "tool"
    /\ call' = Applied("getLibOptions", call.arg, getLibOptions(call.arg.tool))
    /\ UNCHANGED component

\* generatePreviewPath(points, tool)
ApplyGeneratePreviewPath ==
    /\ call.fn = "tool"
    /\ call' = Applied("generatePreviewPath", call.arg,
                       generatePreviewPath(call.arg.points, call.arg.tool))
    /\ UNCHANGED component

NextConfig ==
    \/ ApplyGetLibOptions
    \/ ApplyGeneratePreviewPath

SpecConfig == InitConfig /\ [][NextConfig]_vars

(* -------------------- the easing catalog on its own ------------------- *)

ExpoNames == {"easeInExpo", "easeOutExpo", "easeInOutExpo"}
SineNames == {"easeInSine", "easeOutSine", "easeInOutSine"}
\* t in eighths: every eighth of [0, 1], and for an Expo entry the ends
\* and the middle
Eighths(name) == IF name \in ExpoNames THEN {0, 4, 8} ELSE 0..8
EasingArguments ==
    {[name |-> n, t |-> k] : n \in EASINGS \ SineNames, k \in 0..8}

InitEasing ==
    /\ ComponentInit
    /\ call \in {Given("t", a) : a \in {b \in EasingArguments :
                                          b.t \in Eighths(b.name)}}

ApplyEasing ==
    /\ call.fn = "t"
    /\ call' = Applied("EASINGS", call.arg,
                       EasingValue(call.arg.name, call.arg.t))
    /\ UNCHANGED component

NextEasing == ApplyEasing

SpecEasing == InitEasing /\ [][NextEasing]_vars

(* ------------------------------- claims ------------------------------- *)

Top(stack) == stack[Len(stack)]
Below(stack) == SubSeq(stack, 1, Len(stack) - 1)
Store == allStrokes \o redoStack
ImportApplied ==
    /\ last.op \in {"queryParams", "urlLoadSettled", "fileLoadSettled"}
    /\ last.res = "ok"

\* C1: undo from committed = S followed by x and redo = R gives committed = S
\* and redo = R followed by x; redo from committed = C and redo = R followed
\* by x gives committed = C followed by x and redo = R.
UndoRedoMoveTheTop ==
    [][ /\ (last'.op = "undo" /\ allStrokes # <<>>) =>
              /\ allStrokes' = Below(allStrokes)
              /\ redoStack' = redoStack \o <<Top(allStrokes)>>
        /\ (last'.op = "redo" /\ redoStack # <<>>) =>
              /\ redoStack' = Below(redoStack)
              /\ allStrokes' = allStrokes \o <<Top(redoStack)>>
      ]_vars

\* C1 witness: an undo has moved the second of two committed Strokes
UndoneSecondOfTwo ==
    /\ last.op = "undo"
    /\ Len(allStrokes) = 1 /\ Len(redoStack) = 1
    /\ allStrokes[1].seq < redoStack[1].seq

\* C2: right after a gesture commit has appended a Stroke, or an import has
\* been applied, the redo stack is empty.
RedoEmptyAfterCommitOrImport ==
    ((last.op = "pointerUp" /\ last.res = "commit") \/ ImportApplied)
        => redoStack = <<>>

\* the erase hit test as the claim words it: some sample of the Stroke is
\* closer than radius (pixels) to the point (pixels)
CloserThan(s, px, py, radius) ==
    \E i \in DOMAIN s.points :
        LET dx == s.points[i][1] - 2 * px
            dy == s.points[i][2] - 2 * py
        IN  dx * dx + dy * dy < (2 * radius) * (2 * radius)

NotCloserThan(s, px, py, radius) ==
    \A i \in DOMAIN s.points :
        LET dx == s.points[i][1] - 2 * px
            dy == s.points[i][2] - 2 * py
        IN  dx * dx + dy * dy >= (2 * radius) * (2 * radius)

\* the positions in strokes of the Strokes an erase at (px, py) keeps
KeptAt(strokes, px, py) ==
    {i \in DOMAIN strokes : NotCloserThan(strokes[i], px, py, 40)}

\* C3: erase removes from committed exactly the Strokes with a sample
\* strictly closer than the radius to the point, and keeps every other
\* Stroke whole and in its order.
EraseRemovesExactlyTheHit ==
    [][ last'.res = "erase" =>
          LET px == last'.e.client[1] - 10
              py == last'.e.client[2] - 20
              kept == KeptAt(allStrokes, px, py)
          IN  /\ Len(allStrokes') = Cardinality(kept)
              /\ \A i \in kept :
                    Plain(allStrokes'[Cardinality({j \in kept : j <= i})])
                        = Plain(allStrokes[i])
      ]_vars

\* C3 witness: an erase has run and kept a Stroke whose only sample lies at
\* exactly the radius, next to nothing else
ErasedAllButTheOneAtRadius ==
    /\ last.res = "erase" /\ last.e = Near
    /\ Len(allStrokes) = 1
    /\ allStrokes[1].points = << <<48, 64, 1>> >>

\* the Stroke the claim describes for a commit of the buffer with tool t
StrokeOfBuffer(t) ==
    [points |-> currentPoints, color |-> t.color, opacity |-> t.opacity,
     outlineColor |-> t.outline.color, outlineWidth |-> t.outline.width]

Cosmetic(s) ==
    [points |-> s.points, color |-> s.color, opacity |-> s.opacity,
     outlineColor |-> s.outlineColor, outlineWidth |-> s.outlineWidth]

AppendsTheBuffer(t) ==
    /\ Len(allStrokes') = Len(allStrokes) + 1
    /\ SubSeq(allStrokes', 1, Len(allStrokes)) = allStrokes
    /\ Cosmetic(Top(allStrokes')) = StrokeOfBuffer(t)

GestureStrokes ==
    {Store[i] : i \in {j \in DOMAIN Store : Store[j].origin = "gesture"}}

\* C5: the path of every Stroke committed from a gesture is the preview
\* path recomputed (outline, then encode) from its own points with a
\* drawing tool; a tap commits a non-empty path.
GesturePathIsOfItsOwnPoints ==
    \A s \in GestureStrokes :
        /\ s.path # <<>>
        /\ \E t \in {"pen1", "pen2", "highlighter"} :
              s.path = generatePreviewPath(s.points, tools[t])

\* C6: a pointer-down with a drawing tool while a gesture is in progress
\* leaves the buffer as exactly one sample and no preview path.
BeginDiscardsWholeBuffer ==
    [][ (last'.op = "pointerDown" /\ activeTool # "eraser" /\ currentPoints # <<>>)
          => Len(currentPoints') = 1 /\ previewPath' = <<>>
      ]_vars

\* C7: an import of a text with no svg root leaves committed and redo as
\* they were.
UnparsableImportLeavesStore ==
    [][ (ImportApplied' /\ ~last'.doc.svg) => UNCHANGED <<allStrokes, redoStack>> ]_vars

\* the path elements of a document that have a d attribute
PathsWithD(doc) == {i \in DOMAIN doc.paths : "d" \in doc.paths[i].attrs}

\* C8: an import of a well-formed document with k paths that have a d
\* attribute puts k new Strokes on top of the Strokes committed before,
\* which are retained.
ImportPushesOnTop ==
    [][ (ImportApplied' /\ last'.doc.svg) =>
          /\ Len(allStrokes') = Len(allStrokes) + Cardinality(PathsWithD(last'.doc))
          /\ SubSeq(PlainAll(allStrokes'), 1, Len(allStrokes)) = PlainAll(allStrokes)
      ]_vars

\* a load that ended without a text: the fetch rejected or answered not
\* 2xx, the file read failed, or the svg query value is not base64
LoadFailed ==
    \/ last.op = "urlLoadSettled" /\ last.res \in {"rejected", "notOk"}
    \/ last.op = "fileLoadSettled" /\ last.res = "error"
    \/ last.op = "queryParams" /\ last.res = "bad"

\* C9: a load that fails leaves committed, redo and the in-progress buffer
\* as they were; the failed load is no longer outstanding, and after a bad
\* svg query value the url of the same query is still fetched.
FailedLoadLeavesStore ==
    [][ LoadFailed' =>
          /\ UNCHANGED <<allStrokes, redoStack, currentPoints, previewPath>>
          /\ last'.op = "urlLoadSettled" => pending'.url = pending.url - 1
          /\ last'.op = "fileLoadSettled" => pending'.file = pending.file - 1
          /\ (last'.op = "queryParams" /\ last'.url) => pending'.url = pending.url + 1
      ]_vars

\* C9 witness: a fetch has failed while Strokes are committed, one is
\* undone and a gesture is in progress
FetchFailedOverWork ==
    /\ last.op = "urlLoadSettled" /\ last.res = "notOk"
    /\ allStrokes # <<>> /\ redoStack # <<>> /\ currentPoints # <<>>

\* C10: committed followed by the reverse of redo lists the Strokes in
\* strictly increasing order of creation.
StoreInCreationOrder ==
    LET order == allStrokes \o Reverse(redoStack)
    IN  \A i, j \in DOMAIN order : i < j => order[i].seq < order[j].seq

\* C11: a pointer-down with a drawing tool active empties the redo stack,
\* makes the buffer exactly the one sample (x, y, pressure) of the event,
\* and leaves committed unchanged.
BeginSeedsBufferAndClearsRedo ==
    [][ (last'.op = "pointerDown" /\ activeTool \in {"pen1", "pen2", "highlighter"}) =>
          /\ redoStack' = <<>>
          /\ currentPoints' = << << 2 * (last'.e.client[1] - 10),
                                    2 * (last'.e.client[2] - 20),
                                    last'.e.pressure >> >>
          /\ allStrokes' = allStrokes
      ]_vars

\* C11 witness: a gesture was begun at full pressure over a committed
\* Stroke while the preview of an earlier, unfinished gesture was showing
BegunOverUnfinishedGesture ==
    /\ last.op = "pointerDown" /\ last.res = "begin"
    /\ previewPath # <<>>
    /\ currentPoints = << <<0, 0, 2>> >>
    /\ allStrokes # <<>> /\ redoStack = <<>>

\* C12: undo with committed empty and redo with the redo stack empty change
\* none of committed, redo and the buffer; every undo and redo keeps the
\* number of Strokes in the two stacks together.
EmptyUndoRedoAreNoOps ==
    [][ /\ (last'.op = "undo" /\ allStrokes = <<>>) =>
              UNCHANGED <<allStrokes, redoStack, currentPoints>>
        /\ (last'.op = "redo" /\ redoStack = <<>>) =>
              UNCHANGED <<allStrokes, redoStack, currentPoints>>
        /\ last'.op \in {"undo", "redo"} =>
              Len(allStrokes') + Len(redoStack') = Len(allStrokes) + Len(redoStack)
      ]_vars

\* C12 witness: an undo has run on an empty committed sequence (an undo
\* that moves a Stroke leaves redo non-empty) while a gesture was going on
UndoneNothing ==
    /\ last.op = "undo"
    /\ allStrokes = <<>> /\ redoStack = <<>>
    /\ currentPoints # <<>>

\* C13: clear leaves committed and redo empty, and an undo or redo that
\* comes directly after a clear changes neither.
ClearEmptiesBothStacks ==
    [][ /\ last'.op = "clearCanvas" => allStrokes' = <<>> /\ redoStack' = <<>>
        /\ (last.op = "clearCanvas" /\ last'.op \in {"undo", "redo"}) =>
              UNCHANGED <<allStrokes, redoStack>>
      ]_vars

\* C13 witness: clear has run in the middle of a gesture with its preview
ClearedDuringGesture ==
    /\ last.op = "clearCanvas"
    /\ allStrokes = <<>> /\ redoStack = <<>>
    /\ previewPath # <<>> /\ Len(currentPoints) = 2

\* m is the midpoint of p and q
IsMidpoint(m, p, q) ==
    IF IsTiny(p) \/ IsTiny(q)
    THEN /\ IsTiny(m)
         /\ 2 * (m - TinyBase) = (IF IsTiny(p) THEN p - TinyBase ELSE 0)
                                   + (IF IsTiny(q) THEN q - TinyBase ELSE 0)
    ELSE 2 * m = p + q

\* d is M, p_0, Q, then for each ring point in order the point and the
\* midpoint to its cyclic successor, then Z
IsEncodingOf(d, ring) ==
    LET n == Len(ring)
    IN  /\ Len(d) = 4 * n + 5
        /\ d[1] = Cmd("M") /\ d[2] = Num(ring[1][1]) /\ d[3] = Num(ring[1][2])
        /\ d[4] = Cmd("Q") /\ d[4 * n + 5] = Cmd("Z")
        /\ \A i \in 1..n :
              LET p == ring[i]
                  q == ring[IF i = n THEN 1 ELSE i + 1]
                  at == 4 * i
              IN  /\ d[at + 1] = Num(p[1]) /\ d[at + 2] = Num(p[2])
                  /\ d[at + 3].k = "num" /\ IsMidpoint(d[at + 3].n, p[1], q[1])
                  /\ d[at + 4].k = "num" /\ IsMidpoint(d[at + 4].n, p[2], q[2])

\* C14: the encoding of a ring of n >= 1 points is M, p_0, Q, the n pairs
\* (p_i, midpoint of p_i and p_((i+1) mod n)) and Z, so a one-point ring
\* (x, y) gives "M x y Q x y x y Z"; the encoding of the empty ring is ''.
EncodeIsMoveQuadsClose ==
    call.fn = "getSvgPathFromStroke" =>
        /\ call.arg = <<>> => call.out = <<>>
        /\ call.arg # <<>> => IsEncodingOf(call.out, call.arg)
        /\ Len(call.arg) = 1 =>
              LET x == Num(call.arg[1][1])
                  y == Num(call.arg[1][2])
              IN  call.out = << Cmd("M"), x, y, Cmd("Q"), x, y, x, y, Cmd("Z") >>

\* C14 witness: a ring of three different points has been encoded
EncodedTriangle ==
    /\ call.fn = "getSvgPathFromStroke"
    /\ call.arg = << <<0, 0>>, <<6, -4>>, <<20, 14>> >>
    /\ Len(call.out) = 17 /\ call.out[7] = Num(3) /\ call.out[16] = Num(7)

\* C15: the decoding of a path string with numerals t_0 .. t_(m-1) is the
\* points (t_(2i), t_(2i+1), 0.5), i = 0 .. floor(m/2)-1, in order; an odd
\* last numeral is dropped, no numeral gives no point, and
\* "M1 2 Q3 4 5 6 Z" gives (1,2,0.5), (3,4,0.5), (5,6,0.5).
DecodePairsTheNumerals ==
    call.fn = "extractPointsFromPath" =>
        LET t == MatchNumbers(call.arg)
        IN  /\ Len(call.out) = Len(t) \div 2
            /\ \A i \in 1..Len(call.out) :
                  call.out[i] = <<t[2 * i - 1], t[2 * i], 1>>
            /\ call.arg = ExamplePath =>
                  call.out = << <<2, 4, 1>>, <<6, 8, 1>>, <<10, 12, 1>> >>

\* C15 witness: a path string with three numerals has been decoded to one
\* point, its last numeral dropped
DecodedDroppingOddNumeral ==
    /\ call.fn = "extractPointsFromPath"
    /\ call.arg = << Cmd("M"), Num(2), Num(-7), Num(2) >>
    /\ call.out = << <<2, -7, 1>> >>

\* C16: the decoding of the encoding of a non-empty ring is non-empty and
\* its first point is the ring's first point with pressure 0.5.
RoundTripKeepsFirstPoint ==
    (call.fn = "roundTrip" /\ call.arg # <<>>) =>
        /\ call.out # <<>>
        /\ call.out[1] = <<call.arg[1][1], call.arg[1][2], 1>>

\* the number a numeral of the documents stands for, in hundredths
ReadAs(numeral) ==
    CASE numeral = "0" -> 0
      [] numeral = "0.4" -> 40
      [] numeral = "3" -> 300

Has(el, name) == name \in el.attrs

\* C17 as stated: every path element with a d attribute gives one Stroke
\* whose color is fill (#000000 when fill is absent or none), opacity is
\* fill-opacity (1 when absent), outlineColor is stroke (#000000 when
\* absent or none), outlineWidth is stroke-width (0 when absent), path is
\* d and points is the decoding of d.
StyleDefaultsWhenAbsent ==
    (call.fn = "parseSVGContent" /\ Has(call.arg, "d")) =>
        LET el == call.arg
        IN  /\ Len(call.out) = 1
            /\ call.out[1].color =
                  (IF ~Has(el, "fill") \/ el.fill = "none" THEN "#000000" ELSE el.fill)
            /\ Has(el, "fill-opacity") /\ el.fillOpacity # "" =>
                  call.out[1].opacity = ReadAs(el.fillOpacity)
            /\ ~Has(el, "fill-opacity") => call.out[1].opacity = 100
            /\ call.out[1].outlineColor =
                  (IF ~Has(el, "stroke") \/ el.stroke = "none" THEN "#000000" ELSE el.stroke)
            /\ Has(el, "stroke-width") /\ el.strokeWidth # "" =>
                  call.out[1].outlineWidth = ReadAs(el.strokeWidth)
            /\ ~Has(el, "stroke-width") => call.out[1].outlineWidth = 0
            /\ call.out[1].path = el.d
            /\ call.out[1].points = extractPointsFromPath(el.d)

\* an attribute that is not there or is there with the empty value
Missing(el, name, value) == ~Has(el, name) \/ value = ""

\* C17 amended: every path element with a non-empty d attribute gives one
\* Stroke whose color is fill (#000000 when fill is absent, empty or
\* none), opacity is fill-opacity (1 when absent or empty), outlineColor is
\* stroke (#000000 when absent, empty or none), outlineWidth is
\* stroke-width (0 when absent or empty), path is d and points is the
\* decoding of d; a path element whose d is absent or empty gives none.
StyleDefaultsWhenAbsentOrEmpty ==
    call.fn = "parseSVGContent" =>
        LET el == call.arg
        IN  IF Missing(el, "d", el.d)
            THEN call.out = <<>>
            ELSE /\ Len(call.out) = 1
                 /\ call.out[1].color =
                       (IF Missing(el, "fill", el.fill) \/ el.fill = "none"
                        THEN "#000000" ELSE el.fill)
                 /\ call.out[1].opacity =
                       (IF Missing(el, "fill-opacity", el.fillOpacity)
                        THEN 100 ELSE ReadAs(el.fillOpacity))
                 /\ call.out[1].outlineColor =
                       (IF Missing(el, "stroke", el.stroke) \/ el.stroke = "none"
                        THEN "#000000" ELSE el.stroke)
                 /\ call.out[1].outlineWidth =
                       (IF Missing(el, "stroke-width", el.strokeWidth)
                        THEN 0 ELSE ReadAs(el.strokeWidth))
                 /\ call.out[1].path = el.d
                 /\ call.out[1].points = extractPointsFromPath(el.d)

\* C17 witness: a path with an empty fill, no fill-opacity, stroke none
\* and a stroke-width has been imported with the default colours
ImportedWithEmptyFill ==
    /\ call.fn = "parseSVGContent"
    /\ call.arg = ElementWith(PathDataC, "", Null, "none", "3")
    /\ Len(call.out) = 1
    /\ call.out[1].color = "#000000" /\ call.out[1].opacity = 100
    /\ call.out[1].outlineColor = "#000000" /\ call.out[1].outlineWidth = 300
    /\ call.out[1].points = << <<200, 0, 1>> >>

UnknownEasing(tool) ==
    \/ tool.easing \notin EASINGS
    \/ tool.start.easing \notin EASINGS
    \/ tool.end.easing \notin EASINGS

\* C18: resolving a tool configuration that names an easing the catalog
\* does not have ends in a configuration error, and so does generating a
\* path with it: neither call returns options or a path for such a
\* configuration.
UnknownEasingNeverResolves ==
    call.fn \in {"getLibOptions", "generatePreviewPath"}
        => ~UnknownEasing(call.arg.tool)

\* C19: the flag is up exactly while a request of the export is under
\* way, and whenever it is up it is down again later: every way the
\* request can end (2xx, not 2xx, rejection, exception) resets it.
InFlightFlagIsReset ==
    /\ [](isSending <=> InFlight > 0)
    /\ (isSending ~> ~isSending)

\* C19 witness: the fetch of an export was rejected and the flag is down
ExportRejectedFlagDown ==
    /\ last.op = "fetchSettled" /\ last.res = "rejected"
    /\ ~isSending /\ InFlight = 0
    /\ allStrokes # <<>>

\* C20: while a gesture is in progress (its buffer is not empty) the
\* completion of a URL fetch or of a file read changes neither committed
\* nor redo, so the gesture commits onto the sequence it started from.
LoadNeverLandsInsideGesture ==
    [][ (currentPoints # <<>> /\ last'.op \in {"urlLoadSettled", "fileLoadSettled"})
          => UNCHANGED <<allStrokes, redoStack>>
      ]_vars

\* the shape parameters every slot has after a reset
GlobalShape(color, size, opacity) ==
    [color |-> color, size |-> size, opacity |-> opacity,
     thinning |-> 50, streamline |-> 50, smoothing |-> 23,
     easing |-> "linear",
     start |-> [taper |-> 0, easing |-> "linear"],
     end |-> [taper |-> 0, easing |-> "linear"],
     outline |-> [color |-> "#9747ff", width |-> 0]]

\* the built-in default of each slot
BuiltIn ==
    [pen1 |-> GlobalShape("#eb454a", 16, 100),
     pen2 |-> GlobalShape("#3b82f6", 16, 100),
     highlighter |-> GlobalShape("#ffeb3b", 30, 40),
     eraser |-> [size |-> 40]]

\* C21: a reset while slot T is active leaves T at its built-in default,
\* for each of the four slots and whatever T held before, and leaves the
\* other three slots, committed and redo as they were.
ResetRestoresActiveSlot ==
    [][ last'.op = "resetPenSettings" =>
          /\ tools'[activeTool] = BuiltIn[activeTool]
          /\ \A t \in ToolNames \ {activeTool} : tools'[t] = tools[t]
          /\ UNCHANGED <<allStrokes, redoStack>>
      ]_vars

\* an entry of the catalog applied at t = 0, at t = 1
EasedAt(name, k) ==
    call.fn = "EASINGS" /\ call.arg.name = name /\ call.arg.t = k

\* C22: linear and the three Expo entries give exactly 0 at t = 0 and
\* exactly 1 at t = 1, through the special-case branch and through the
\* power expression alike.
EasingEndpointsExact ==
    \A name \in {"linear"} \cup ExpoNames :
        /\ EasedAt(name, 0) => call.out = 0
        /\ EasedAt(name, 8) => call.out = One

\* easeOutExpo at t = 0 and easeInExpo at t = 1 go through Math.pow
ExpoEndpointByPower ==
    EasedAt("easeOutExpo", 0) /\ call.out = 0

\* linear and the In, Out and InOut variants of the six families
FamilyEntries ==
    {"linear"}
    \cup {"easeInQuad", "easeInCubic", "easeInQuart", "easeInQuint",
          "easeInSine", "easeInExpo"}
    \cup {"easeOutQuad", "easeOutCubic", "easeOutQuart", "easeOutQuint",
          "easeOutSine", "easeOutExpo"}
    \cup {"easeInOutQuad", "easeInOutCubic", "easeInOutQuart",
          "easeInOutQuint", "easeInOutSine", "easeInOutExpo"}

\* the easing names of a pen configuration
EasingsNamed(tool) == {tool.easing, tool.start.easing, tool.end.easing}

\* the pen slots that hold a default configuration: all three at start,
\* the active one after a reset
DefaultSlots ==
    IF last.op = "init" THEN ToolNames \ {"eraser"}
    ELSE IF last.op = "resetPenSettings" THEN {activeTool} \ {"eraser"}
    ELSE {}

DefaultsNameCatalogEntries ==
    \A t \in DefaultSlots : EasingsNamed(tools[t]) \subseteq EASINGS

\* C23 as stated: the catalog is linear and the In, Out and InOut variants
\* of the six families, 21 entries in total, and every default tool
\* configuration names only entries of the catalog.
CatalogOfTwentyOne ==
    /\ EASINGS = FamilyEntries
    /\ Cardinality(EASINGS) = 21
    /\ DefaultsNameCatalogEntries

\* C23 amended: the same catalog has 19 entries in total (linear and three
\* variants of each of six families), and every default tool configuration
\* names only entries of the catalog.
CatalogOfNineteen ==
    /\ EASINGS = FamilyEntries
    /\ Cardinality(EASINGS) = 19
    /\ DefaultsNameCatalogEntries

\* the highlighter put back to its default while pen1 keeps other settings
HighlighterResetToDefault ==
    /\ last.op = "resetPenSettings"
    /\ activeTool = "highlighter"
    /\ tools.highlighter.easing = "linear"
    /\ tools.pen1.easing = "easeInQuad"

\* C24: erase changes only committed: redo and the in-progress buffer stay
\* as they are, whatever lies within the radius, and a redo that follows
\* the erase puts the undone Stroke back on top of committed.
EraseLeavesUndoneAndBuffer ==
    [][ /\ last'.res = "erase" =>
              /\ PlainAll(redoStack') = PlainAll(redoStack)
              /\ UNCHANGED <<currentPoints, previewPath>>
        /\ (last.res = "erase" /\ last'.op = "redo" /\ redoStack # <<>>) =>
              /\ Plain(Top(allStrokes')) = Plain(Top(redoStack))
              /\ PlainAll(Below(allStrokes')) = PlainAll(allStrokes)
      ]_vars

\* an erase has run at a point within the radius of an undone Stroke, with
\* a gesture unfinished, and the Stroke is still on redo
ErasedOverUndoneStroke ==
    /\ last.res = "erase"
    /\ redoStack # <<>>
    /\ CloserThan(Top(redoStack), last.e.client[1] - 10,
                  last.e.client[2] - 20, 40)
    /\ currentPoints # <<>>

\* C25: at most one export POST is in flight: a sendToApi call made while
\* isSending is true issues no request and changes no state, and isSending
\* stays true until the request that is under way settles.
AtMostOnePostInFlight ==
    /\ [](InFlight <= 1)
    /\ [][ (isSending /\ last'.op = "sendToApi") =>
              UNCHANGED <<allStrokes, redoStack, activeTool, currentPoints,
                          previewPath, tools, pending, isSending, request>>
        ]_vars
    /\ [][ (isSending /\ ~isSending') =>
              /\ last'.op \in {"fetchSettled", "jsonSettled"}
              /\ InFlight = 1 /\ InFlight' = 0
        ]_vars

\* a second call was made while the answer of the first was being read,
\* with Strokes on the canvas
CalledWhileReadingAnswer ==
    /\ last.op = "sendToApi" /\ last.res = "busy"
    /\ isSending /\ request.json = 1
    /\ allStrokes # <<>>

\* a load that was outstanding has completed with a text
LoadCompleted ==
    /\ last.op \in {"urlLoadSettled", "fileLoadSettled"}
    /\ last.res = "ok"

\* C26: loads that are outstanding together are applied as they complete:
\* each completion with a text makes committed the Strokes of its own
\* document and empties redo, whichever loads are still outstanding and
\* whatever was applied before, so after the last completion committed is
\* that of the load that completed last.
LoadsApplyInCompletionOrder ==
    [][ LoadCompleted' =>
          /\ PlainAll(allStrokes') = parseSVGContent(last'.doc)
          /\ redoStack' = <<>>
      ]_vars

\* a file read has completed and was applied while the URL fetch requested
\* with it is still outstanding
FileAppliedWhileFetching ==
    /\ LoadCompleted /\ last.op = "fileLoadSettled"
    /\ last.doc = Mixed
    /\ pending.url > 0
    /\ allStrokes # <<>>

====
